---- MODULE Spec2Model ----
(***************************************************************************)
(* Bjontegaard-Delta computation of the VMA repository, the report         *)
(* builders that feed it, and the schedule service (store, scheduler,      *)
(* execution of a schedule, API handlers) in the last part of the module.  *)
(*                                                                         *)
(* The BD core (_bd_rate, _bd_metrics) is modelled by its control flow:    *)
(* which of its exits a call takes.  A call ends in one of                 *)
(*   "None"   the undefined sentinel (return None),                        *)
(*   "Value"  a finite float,                                              *)
(*   "NaN"    a float that is not a number,                                *)
(*   "Raise"  an exception that leaves the function.                       *)
(* Bitrates are naturals; a bitrate of 0 is what the page builders put in  *)
(* place of a missing bitrate.  Metric values are integers.                *)
(***************************************************************************)
EXTENDS Integers, Sequences, FiniteSets, TLC

VARIABLES
    args,       \* the four sequences of the current direct call of the BD core
    ret,        \* the last direct call of the BD core and what it returned
    data,       \* the report input: data[video][side] is a sequence of encoded items
    report,     \* the report builder that ran on data, the BD rows it produced and
                \* the calls of the BD core it made
    frames,     \* concurrent calls of the BD core: each call's position, the
                \* local variables of the frames, and what each call returned
    storage,    \* the schedule store: per schedule id its directory, schedule.yml
                \* and executions.yml
    scheduler,  \* the APScheduler instance of SchedulerService: the job store, the
                \* executor's count of running instances per job id, _running
    tasks,      \* the coroutines of _execute_schedule that are pending or suspended
    clock,      \* datetime.utcnow(), counted in executions begun
    api         \* the schedule ids whose pause or delete request has returned,
                \* those whose single execution has finished with no request
                \* for the schedule since, and those a triggered run has
                \* completed for

bd_vars == <<args, ret, data, report, frames>>
schedule_vars == <<storage, scheduler, tasks, clock, api>>
vars == <<args, ret, data, report, frames, storage, scheduler, tasks, clock, api>>

\* no schedule service in the specifications of the BD computation
NoSchedules ==
    /\ storage = <<>>
    /\ scheduler = <<>>
    /\ tasks = <<>>
    /\ clock = 0
    /\ api = <<>>

----------------------------------------------------------------------------
(* Bounds of the model *)

\* longest sample sequence handed to the core in a direct call
MaxLen == 5
\* largest offset between the anchor's and the test's sample ranges
MaxOff == 4

----------------------------------------------------------------------------
(* Values *)

\* Python None / a pandas NaN cell: a value that is absent
NONE == -1
\* float('-inf'), the value of np.log(0)
NegInf == -1000

Max2(a, b) == IF a >= b THEN a ELSE b
Min2(a, b) == IF a <= b THEN a ELSE b

\* Python's min() and max() over a non-empty sequence of numbers
SeqMin(s) == CHOOSE x \in {s[i] : i \in 1..Len(s)} : \A j \in 1..Len(s) : x <= s[j]
SeqMax(s) == CHOOSE x \in {s[i] : i \in 1..Len(s)} : \A j \in 1..Len(s) : x >= s[j]

RECURSIVE Pow2(_)
Pow2(k) == IF k <= 0 THEN 1 ELSE 2 * Pow2(k - 1)

\* The logarithm of a positive bitrate, in units of ln 2 and rounded down:
\* order-preserving, and exact on the differences of bitrates that differ by
\* powers of two, which are the bitrates of this model.
RECURSIVE Log2(_)
Log2(r) == IF r <= 1 THEN 0 ELSE 1 + Log2(r \div 2)

\* np.log over a sequence: log(0) is -inf (a warning, no exception)
NpLog(rate) == [i \in 1..Len(rate) |-> IF rate[i] <= 0 THEN NegInf ELSE Log2(rate[i])]

IsFinite(s) == \A i \in 1..Len(s) : s[i] # NegInf

----------------------------------------------------------------------------
(* The BD core *)

\* What the numerical libraries do with an input that is not finite: numpy's
\* lstsq either raises LinAlgError (SVD did not converge) or returns NaN,
\* scipy's pchip either raises ValueError or returns NaN, by version and build.
NonFinite == {"raise", "nan"}

\* the guard `len(rate1) < 4 or len(rate2) < 4`
InsufficientPoints_3(rate1, rate2) == Len(rate1) < 3 \/ Len(rate2) < 3
InsufficientPoints(rate1, rate2) == Len(rate1) < 4 \/ Len(rate2) < 4

\* np.polyfit(x, y, 3): "TypeError" (x empty, or x and y of different length),
\* "LinAlgError" (x not finite, the SVD does not converge), "nan" (coefficients
\* that are NaN: y not finite, or x not finite and no error), "ok" otherwise.
\* Fewer than four distinct x only warn (RankWarning).
Polyfit(x, y, nonfinite) ==
    IF Len(x) = 0 \/ Len(x) # Len(y) THEN "TypeError"
    ELSE IF ~IsFinite(x) THEN (IF nonfinite = "raise" THEN "LinAlgError" ELSE "nan")
    ELSE IF ~IsFinite(y) THEN "nan"
    ELSE "ok"

\* one of the two fits raised
FitRaised(p1, p2) == p1 \in {"TypeError", "LinAlgError"} \/ p2 \in {"TypeError", "LinAlgError"}

\* `try: ... except Exception: return None` around the two fits: every
\* exception of a fit is caught
Caught_LinAlgError(p1, p2) == p1 = "LinAlgError" \/ p2 = "LinAlgError"
Caught(p1, p2) == FitRaised(p1, p2)

\* `if max_int <= min_int: return None`
NoOverlap_lt(min_int, max_int) == max_int < min_int
NoOverlap(min_int, max_int) == max_int <= min_int

\* np.sort(x) is strictly increasing: x has no value twice
Distinct(x) == \A i, j \in 1..Len(x) : i # j => x[i] # x[j]

\* pchip_interpolate(np.sort(x), y[np.argsort(x)], samples) and np.trapz:
\* ValueError when x has a value twice; y not finite raises or gives NaN.
Pchip(x, y, nonfinite) ==
    IF ~Distinct(x) THEN "Raise"
    ELSE IF ~IsFinite(y) THEN (IF nonfinite = "raise" THEN "Raise" ELSE "NaN")
    ELSE "Value"

\* the exit both integrals lead to: an exception of either, else NaN, else a value
Both(v1, v2) ==
    IF v1 = "Raise" \/ v2 = "Raise" THEN "Raise"
    ELSE IF v1 = "NaN" \/ v2 = "NaN" THEN "NaN"
    ELSE "Value"

\* polyint and polyval of a fitted polynomial
PolyArea(p) == IF p = "nan" THEN "NaN" ELSE "Value"

_bd_rate(rate1, metric1, rate2, metric2, piecewise, nonfinite) ==
    IF InsufficientPoints(rate1, rate2) THEN "None"
    ELSE
      LET lR1 == NpLog(rate1)
          lR2 == NpLog(rate2)
          p1 == Polyfit(metric1, lR1, nonfinite)
          p2 == Polyfit(metric2, lR2, nonfinite)
      IN  IF Caught(p1, p2) THEN "None"
          ELSE IF FitRaised(p1, p2) THEN "Raise"
          ELSE
            LET min_int == Max2(SeqMin(metric1), SeqMin(metric2))
                max_int == Min2(SeqMax(metric1), SeqMax(metric2))
            IN  IF NoOverlap(min_int, max_int) THEN "None"
                ELSE IF piecewise = 0
                     THEN Both(PolyArea(p1), PolyArea(p2))
                     ELSE Both(Pchip(metric1, lR1, nonfinite), Pchip(metric2, lR2, nonfinite))

\* In piecewise mode `metric1[np.argsort(lR1)]` indexes a Python list with an
\* array: TypeError, before any interpolation.
_bd_metrics(rate1, metric1, rate2, metric2, piecewise, nonfinite) ==
    IF InsufficientPoints(rate1, rate2) THEN "None"
    ELSE
      LET lR1 == NpLog(rate1)
          lR2 == NpLog(rate2)
          p1 == Polyfit(lR1, metric1, nonfinite)
          p2 == Polyfit(lR2, metric2, nonfinite)
      IN  IF Caught(p1, p2) THEN "None"
          ELSE IF FitRaised(p1, p2) THEN "Raise"
          ELSE
            LET min_int == Max2(SeqMin(lR1), SeqMin(lR2))
                max_int == Min2(SeqMax(lR1), SeqMax(lR2))
            IN  IF NoOverlap(min_int, max_int) THEN "None"
                ELSE IF piecewise = 0
                     THEN Both(PolyArea(p1), PolyArea(p2))
                     ELSE "Raise"

----------------------------------------------------------------------------
(* Direct calls of the core on bounded inputs *)

\* One side's samples: n bitrates 2^off, 2^(off+1), ... (the first one 0 when
\* `zero`), and the metric values off+1, off+2, ..., `short` fewer than bitrates.
SideRates(n, off, zero) ==
    [i \in 1..n |-> IF zero /\ i = 1 THEN 0 ELSE Pow2(off + i - 1)]
SideMetrics(n, off, short) ==
    [i \in 1..Max2(0, n - short) |-> off + i]

SideInputs ==
    { [rate |-> SideRates(n, off, zero), metric |-> SideMetrics(n, off, short)] :
        n \in 0..MaxLen, off \in 0..MaxOff, zero \in BOOLEAN, short \in -1..1 }

\* the example of the specification: metric range [10,20] against [30,40]
ExampleInputs ==
    { [rate1 |-> <<1, 2, 4, 8>>, metric1 |-> <<10, 13, 17, 20>>,
       rate2 |-> <<1, 2, 4, 8>>, metric2 |-> <<30, 33, 37, 40>>] }

CoreInputs ==
    { [rate1 |-> a.rate, metric1 |-> a.metric, rate2 |-> t.rate, metric2 |-> t.metric] :
        a \in SideInputs, t \in SideInputs } \cup ExampleInputs

NoCall == [fn |-> "", piecewise |-> 0, res |-> ""]
NoData == <<>>
NoFrames == <<>>
NoReport == [builder |-> "", aborted |-> FALSE, has_bd |-> FALSE, bd_list |-> <<>>, calls |-> {}]

InitCore ==
    /\ args \in CoreInputs
    /\ ret = NoCall
    /\ data = NoData
    /\ report = NoReport
    /\ frames = NoFrames
    /\ NoSchedules

CallBdRate ==
    \E piecewise \in 0..1, nonfinite \in NonFinite :
        /\ ret' = [fn |-> "_bd_rate", piecewise |-> piecewise,
                   res |-> _bd_rate(args.rate1, args.metric1, args.rate2, args.metric2,
                                    piecewise, nonfinite)]
        /\ UNCHANGED <<args, data, report, frames, schedule_vars>>

CallBdMetrics ==
    \E piecewise \in 0..1, nonfinite \in NonFinite :
        /\ ret' = [fn |-> "_bd_metrics", piecewise |-> piecewise,
                   res |-> _bd_metrics(args.rate1, args.metric1, args.rate2, args.metric2,
                                       piecewise, nonfinite)]
        /\ UNCHANGED <<args, data, report, frames, schedule_vars>>

NextCore == CallBdRate \/ CallBdMetrics

SpecCore == InitCore /\ [][NextCore]_vars

----------------------------------------------------------------------------
(* Claims about the core, checked under SpecCore *)

Called == ret.fn # ""

\* the (bitrate, metric) pairs of a side: a sample is a pair only when both
\* of its components are there
AnchorPairs == Min2(Len(args.rate1), Len(args.metric1))
TestPairs == Min2(Len(args.rate2), Len(args.metric2))
InsufficientData == AnchorPairs < 4 \/ TestPairs < 4

\* the fitting axis of the called function: the metric for _bd_rate, the
\* log-bitrate for _bd_metrics
Axis1 == IF ret.fn = "_bd_rate" THEN args.metric1 ELSE NpLog(args.rate1)
Axis2 == IF ret.fn = "_bd_rate" THEN args.metric2 ELSE NpLog(args.rate2)
HasDomains == Len(Axis1) > 0 /\ Len(Axis2) > 0
overlap_min == Max2(SeqMin(Axis1), SeqMin(Axis2))
overlap_max == Min2(SeqMax(Axis1), SeqMax(Axis2))

\* C1: whenever the anchor side or the test side has fewer than 4 paired
\* samples, _bd_rate and _bd_metrics return None (and so raise nothing).
C1_InsufficientDataIsNone ==
    (Called /\ InsufficientData) => ret.res = "None"

C1_Witness ==
    /\ ret.fn = "_bd_rate"
    /\ Len(args.rate1) = 3 /\ Len(args.metric1) = 3
    /\ TestPairs >= 4
    /\ ret.res = "None"

\* C2: with overlap_min the larger of the two domain minima and overlap_max
\* the smaller of the two domain maxima, the result is None whenever
\* overlap_max <= overlap_min, domains that touch in one point included.
C2_NoOverlapIsNone ==
    (Called /\ HasDomains /\ overlap_max <= overlap_min) => ret.res = "None"

\* anchor metric range [10,20], test metric range [30,40], 4 points each
C2_Witness ==
    /\ ret.fn = "_bd_rate"
    /\ args \in ExampleInputs
    /\ overlap_max <= overlap_min
    /\ ret.res = "None"

\* C3: in the undefined case (insufficient points or no domain overlap) a
\* call neither raises nor returns a number, in exact mode (piecewise = 0)
\* and in piecewise mode alike.
Undefined == InsufficientData \/ (HasDomains /\ overlap_max <= overlap_min)

C3_UndefinedNeverRaises ==
    \A mode \in 0..1 :
        (Called /\ ret.piecewise = mode /\ Undefined) => ret.res \notin {"Raise", "NaN", "Value"}

\* piecewise mode, sequences of different length on the anchor side
C3_Witness ==
    /\ ret.fn = "_bd_metrics" /\ ret.piecewise = 1
    /\ Len(args.rate1) = 4 /\ Len(args.metric1) = 3
    /\ Len(args.rate2) >= 4
    /\ ret.res = "None"

\* the fit of a side fails: it raises (sequences of different length) or its
\* coefficients are NaN (a bitrate of 0, whose logarithm is -inf)
FitFails(rate, metric) ==
    Len(rate) # Len(metric) \/ \E i \in 1..Len(rate) : rate[i] = 0
FittingFailure ==
    FitFails(args.rate1, args.metric1) \/ FitFails(args.rate2, args.metric2)

\* C4: a fitting failure is treated like insufficient data: the call
\* returns None, and neither an exception nor a NaN reaches the caller.
C4_FittingFailureIsNone ==
    (Called /\ ret.piecewise = 0 /\ FittingFailure) => ret.res = "None"

\* what the code does instead: the NaN of the fit is returned
C4_Witness ==
    /\ ret.fn = "_bd_rate" /\ ret.piecewise = 0
    /\ FittingFailure
    /\ ret.res = "NaN"

----------------------------------------------------------------------------
(* The report builders: rows, join, filters *)

\* most rate-control points of a side
MaxPts == 5

Metrics == {"psnr", "ssim", "vmaf", "vmaf_neg"}
Videos == <<"v1", "v2">>
Sides == {"anchor", "test"}

\* a stable sort of records by their field `key`, as sorted() and sort_values()
InsertSorted(s, x) ==
    LET p == Cardinality({i \in 1..Len(s) : s[i].key <= x.key})
    IN  SubSeq(s, 1, p) \o <<x>> \o SubSeq(s, p + 1, Len(s))
RECURSIVE Sorted(_)
Sorted(s) == IF s = <<>> THEN <<>> ELSE InsertSorted(Sorted(SubSeq(s, 1, Len(s) - 1)), s[Len(s)])

RECURSIVE Concat(_)
Concat(ss) == IF ss = <<>> THEN <<>> ELSE ss[1] \o Concat(Tail(ss))

\* _build_rows: one row per encoded item.  The label is taken as parsed
\* (_parse_point); a bitrate that is absent or 0 becomes 0, in kbps.  idx is
\* the item's position in the job's list: it identifies the sample a value of
\* the row comes from and is no column of the page's frame.
Bitrate_kbps(item) ==
    (IF item.avg_bitrate_bps = NONE THEN 0 ELSE item.avg_bitrate_bps) \div 1000

_build_rows(items) ==
    [i \in 1..Len(items) |->
        [Point |-> items[i].point,
         Bitrate_kbps |-> Bitrate_kbps(items[i]),
         m |-> items[i].metrics,
         idx |-> i,
         key |-> items[i].point]]

\* anchor.merge(test, on=["Video", "RC", "Point"]) within one video: the
\* inner join, in the order of the anchor rows
Merge(anchor, test) ==
    Concat([i \in 1..Len(anchor) |->
        LET match == SelectSeq(test, LAMBDA t : t.Point = anchor[i].Point)
        IN  [j \in 1..Len(match) |-> [anchor |-> anchor[i], test |-> match[j]]]])

\* _collect of _build_bd_rows: merge.dropna(subset=[metric of both sides,
\* bitrate of both sides]) and its four columns
DropNa(merge, k) ==
    SelectSeq(merge, LAMBDA r : /\ r.anchor.m[k] # NONE /\ r.test.m[k] # NONE
                                /\ r.anchor.Bitrate_kbps # NONE /\ r.test.Bitrate_kbps # NONE)

PageCollect(merge, k) ==
    LET merged == DropNa(merge, k)
    IN  [rates_anchor |-> [i \in 1..Len(merged) |-> merged[i].anchor.Bitrate_kbps],
         col_anchor |-> [i \in 1..Len(merged) |-> merged[i].anchor.m[k]],
         rates_test |-> [i \in 1..Len(merged) |-> merged[i].test.Bitrate_kbps],
         col_test |-> [i \in 1..Len(merged) |-> merged[i].test.m[k]],
         ids_anchor |-> [i \in 1..Len(merged) |-> merged[i].anchor.idx],
         ids_test |-> [i \in 1..Len(merged) |-> merged[i].test.idx]]

\* The arguments _build_bd_rows hands to the core for metric k: the bitrates
\* are those of the PSNR collection for every metric, the metric values those
\* of the metric's own collection.  ids* and rids* are not arguments: they
\* record the samples the metric values and the bitrates come from.
PageArgs(merge, k) ==
    LET first == PageCollect(merge, "psnr")
        own == PageCollect(merge, k)
    IN  [rate1 |-> first.rates_anchor, metric1 |-> own.col_anchor,
         rate2 |-> first.rates_test, metric2 |-> own.col_test,
         ids1 |-> own.ids_anchor, ids2 |-> own.ids_test,
         rids1 |-> first.ids_anchor, rids2 |-> first.ids_test]

\* one video's BD row and the calls behind it
BdRow(video, a, nonfinite) ==
    [source |-> video,
     bd_rate |-> [k \in Metrics |->
        _bd_rate(a[k].rate1, a[k].metric1, a[k].rate2, a[k].metric2, 0, nonfinite)],
     bd |-> [k \in Metrics |->
        _bd_metrics(a[k].rate1, a[k].metric1, a[k].rate2, a[k].metric2, 0, nonfinite)]]

\* a call of the core as the builder made it
CallOf(video, k, f, a) ==
    [video |-> video, metric |-> k, fn |-> f, rate1 |-> a.rate1, metric1 |-> a.metric1,
     rate2 |-> a.rate2, metric2 |-> a.metric2, ids1 |-> a.ids1, ids2 |-> a.ids2,
     rids1 |-> a.rids1, rids2 |-> a.rids2]

CallsOf(video, a) ==
    { CallOf(video, k, f, a[k]) : k \in Metrics, f \in {"_bd_rate", "_bd_metrics"} }

RowRaises(row) ==
    \E k \in Metrics : row.bd_rate[k] = "Raise" \/ row.bd[k] = "Raise"

\* _build_bd_rows(df): per video, the sides' rows, their join, the rows of
\* BD values.  A video without rows on a side or without a joined row is
\* skipped.
VideoRows(d, v, side) == Sorted(_build_rows(d[v][side]))

PageVideoArgs(d, v) ==
    LET merge == Merge(VideoRows(d, v, "anchor"), VideoRows(d, v, "test"))
    IN  [k \in Metrics |-> PageArgs(merge, k)]

PageSkips(d, v) ==
    \/ VideoRows(d, v, "anchor") = <<>>
    \/ VideoRows(d, v, "test") = <<>>
    \/ Merge(VideoRows(d, v, "anchor"), VideoRows(d, v, "test")) = <<>>

_build_bd_rows(d, nonfinite) ==
    LET kept == SelectSeq(Videos, LAMBDA v : ~PageSkips(d, v))
        rows == [i \in 1..Len(kept) |-> BdRow(kept[i], PageVideoArgs(d, kept[i]), nonfinite)]
    IN  [bd_list |-> rows,
         aborted |-> \E i \in 1..Len(rows) : RowRaises(rows[i]),
         calls |-> UNION { CallsOf(kept[i], PageVideoArgs(d, kept[i])) :
                            i \in 1..Len(kept) }]

\* df["Point"].dropna().nunique() over the rows of both sides and all videos
AllItems(d) ==
    UNION { {d[Videos[i]][side][j] : j \in 1..Len(d[Videos[i]][side])} :
              i \in 1..Len(Videos), side \in Sides }
point_count(d) == Cardinality({it.point : it \in {x \in AllItems(d) : x.point # NONE}})

\* has_bd = point_count >= 4
HasBd_3(d) == point_count(d) >= 3
HasBd(d) == point_count(d) >= 4

----------------------------------------------------------------------------
(* run_template: the BD section *)

\* _extract_bitrate: a number > 0, else None
_extract_bitrate(item) ==
    IF item.avg_bitrate_bps # NONE /\ item.avg_bitrate_bps > 0
    THEN item.avg_bitrate_bps ELSE NONE

\* _extract_metric_value: `metric.get(key_avg) or metric.get(key_mean)`; a
\* psnr_avg or ssim_avg of 0 is falsy and there is no psnr_mean or ssim_mean
_extract_metric_value(item, key) ==
    IF key \in {"psnr", "ssim"} /\ item.metrics[key] = 0 THEN NONE ELSE item.metrics[key]

\* _collect / the loop of _pair_metrics: the items of a side that have both
\* a bitrate and a value of the metric
RunnerCollect(series, key) ==
    LET pts == [i \in 1..Len(series) |->
                   [val |-> _extract_metric_value(series[i], key),
                    bitrate |-> _extract_bitrate(series[i]), idx |-> i]]
    IN  SelectSeq(pts, LAMBDA pt : pt.bitrate # NONE /\ pt.val # NONE)

\* `if len(pts_a) < 4 or len(pts_b) < 4: return None`, before the core is called
TooFewPoints(pts_a, pts_b) == Len(pts_a) < 4 \/ Len(pts_b) < 4

\* zip(*sorted(pts, key=lambda x: x[0])): by the metric value in _pair_curves,
\* by the bitrate in _pair_metrics
SortedBy(pts, by) ==
    Sorted([i \in 1..Len(pts) |->
        [val |-> pts[i].val, bitrate |-> pts[i].bitrate, idx |-> pts[i].idx,
         key |-> IF by = "val" THEN pts[i].val ELSE pts[i].bitrate]])

RunnerArgs(anchor_enc, test_enc, key, by) ==
    LET a == SortedBy(RunnerCollect(anchor_enc, key), by)
        t == SortedBy(RunnerCollect(test_enc, key), by)
    IN  [rate1 |-> [i \in 1..Len(a) |-> a[i].bitrate], metric1 |-> [i \in 1..Len(a) |-> a[i].val],
         rate2 |-> [i \in 1..Len(t) |-> t[i].bitrate], metric2 |-> [i \in 1..Len(t) |-> t[i].val],
         ids1 |-> [i \in 1..Len(a) |-> a[i].idx], ids2 |-> [i \in 1..Len(t) |-> t[i].idx],
         rids1 |-> [i \in 1..Len(a) |-> a[i].idx], rids2 |-> [i \in 1..Len(t) |-> t[i].idx]]

_pair_curves(anchor_enc, test_enc, key, nonfinite) ==
    IF TooFewPoints(RunnerCollect(anchor_enc, key), RunnerCollect(test_enc, key)) THEN "None"
    ELSE LET a == RunnerArgs(anchor_enc, test_enc, key, "val")
         IN  _bd_rate(a.rate1, a.metric1, a.rate2, a.metric2, 0, nonfinite)

_pair_metrics(anchor_enc, test_enc, key, nonfinite) ==
    IF TooFewPoints(RunnerCollect(anchor_enc, key), RunnerCollect(test_enc, key)) THEN "None"
    ELSE LET a == RunnerArgs(anchor_enc, test_enc, key, "bitrate")
         IN  _bd_metrics(a.rate1, a.metric1, a.rate2, a.metric2, 0, nonfinite)

RunnerCalls(video, anchor_enc, test_enc) ==
    UNION { IF TooFewPoints(RunnerCollect(anchor_enc, k), RunnerCollect(test_enc, k)) THEN {}
            ELSE { CallOf(video, k, "_bd_rate", RunnerArgs(anchor_enc, test_enc, k, "val")),
                   CallOf(video, k, "_bd_metrics", RunnerArgs(anchor_enc, test_enc, k, "bitrate")) } :
            k \in Metrics }

\* `sorted(anchor.bitrate_points) != sorted(test.bitrate_points)`: ValueError
PointsOf(items) == Sorted([i \in 1..Len(items) |-> [key |-> items[i].point]])
PointsDiffer(d) ==
    \E i \in 1..Len(Videos) : PointsOf(d[Videos[i]]["anchor"]) # PointsOf(d[Videos[i]]["test"])

run_template(d, nonfinite) ==
    LET rows == [i \in 1..Len(Videos) |->
                   LET v == Videos[i]
                   IN  [source |-> v,
                        bd_rate |-> [k \in Metrics |->
                            _pair_curves(d[v]["anchor"], d[v]["test"], k, nonfinite)],
                        bd |-> [k \in Metrics |->
                            _pair_metrics(d[v]["anchor"], d[v]["test"], k, nonfinite)]]]
    IN  IF PointsDiffer(d) THEN [bd_list |-> <<>>, aborted |-> TRUE, calls |-> {}]
        ELSE [bd_list |-> rows,
              aborted |-> \E i \in 1..Len(rows) : RowRaises(rows[i]),
              calls |-> UNION { RunnerCalls(Videos[i], d[Videos[i]]["anchor"], d[Videos[i]]["test"]) :
                                  i \in 1..Len(Videos) }]

----------------------------------------------------------------------------
(* Reports on bounded inputs.  A behaviour is one run over stored data: a
   page run or a job builds its report once; the template page then shows the
   report a job stored. *)

\* The encoded items of one video on one side, one per listed rate-control
\* point.  The points are 1..n, or 1, 1, 2, .. when `dup` (a point listed
\* twice: the same output file is analysed twice).  The item of point j has the
\* bitrate 1000 * 2^(off+j-1) bps and the metric values off+j; `miss` names the
\* field the output of point `at` lacks.
SideItems(n, dup, miss, off, at) ==
    [i \in 1..n |->
        LET j == IF dup /\ i > 1 THEN i - 1 ELSE i
        IN  [point |-> j,
             avg_bitrate_bps |-> IF miss = "bitrate" /\ j = at THEN NONE ELSE 1000 * Pow2(off + j - 1),
             metrics |-> [k \in Metrics |-> IF miss = k /\ j = at THEN NONE ELSE off + j]]]

Missing == {"nothing", "bitrate"} \cup Metrics

\* Both jobs encode every video at the job's points: n items on the anchor
\* side, one fewer on the test side when `short` (a job with one point less).
\* The first video may lack one field on either side (at point 1 on the anchor
\* side, at point 2 on the test side), and its test side may be measured over a
\* range that does not meet the anchor's (off = MaxPts).
ReportData ==
    { [v \in {"v1", "v2"} |->
        [side \in Sides |->
            LET n == IF side = "test" /\ c.short THEN c.n - 1 ELSE c.n
            IN  IF v = "v1"
                THEN SideItems(n, c.dup, IF side = "anchor" THEN c.miss_a ELSE c.miss_t,
                               IF side = "anchor" THEN 0 ELSE c.off,
                               IF side = "anchor" THEN 1 ELSE 2)
                ELSE SideItems(n, c.dup, "nothing", 0, 1)]] :
      c \in [n : 3..MaxPts, dup : BOOLEAN, short : BOOLEAN,
             miss_a : Missing, miss_t : Missing, off : {0, MaxPts}] }

InitReport ==
    /\ args = [rate1 |-> <<>>, metric1 |-> <<>>, rate2 |-> <<>>, metric2 |-> <<>>]
    /\ ret = NoCall
    /\ data \in ReportData
    /\ report = NoReport
    /\ frames = NoFrames
    /\ NoSchedules

\* pages/3 (mode 1) and pages/2: has_bd from the number of distinct points,
\* then _build_bd_rows(df)
ComparisonPage ==
    \E nonfinite \in NonFinite :
        LET built == _build_bd_rows(data, nonfinite)
        IN  /\ report = NoReport
            /\ report' = IF HasBd(data)
                         THEN [builder |-> "comparison_page", aborted |-> built.aborted,
                               has_bd |-> TRUE,
                               bd_list |-> IF built.aborted THEN <<>> ELSE built.bd_list,
                               calls |-> built.calls]
                         ELSE [builder |-> "comparison_page", aborted |-> FALSE,
                               has_bd |-> FALSE, bd_list |-> <<>>, calls |-> {}]
            /\ UNCHANGED <<args, ret, data, frames, schedule_vars>>

\* pages/Metrics_Analysis.py: _build_bd_rows(merged) is given the joined
\* frame, whose columns are Side_base and Side_exp: g["Side"] raises KeyError
\* for the first video of a frame that is not empty.
AnalysisPage ==
    LET merged == Concat([i \in 1..Len(Videos) |->
                    Merge(VideoRows(data, Videos[i], "anchor"), VideoRows(data, Videos[i], "test"))])
    IN  /\ report = NoReport
        /\ report' = [builder |-> "analysis_page", aborted |-> merged # <<>>,
                      has_bd |-> TRUE, bd_list |-> <<>>, calls |-> {}]
        /\ UNCHANGED <<args, ret, data, frames, schedule_vars>>

\* services/metrics_comparison_runner.py: the report run_template stores
RunTemplate ==
    \E nonfinite \in NonFinite :
        LET built == run_template(data, nonfinite)
        IN  /\ report = NoReport
            /\ report' = [builder |-> "run_template", aborted |-> built.aborted,
                          has_bd |-> TRUE,
                          bd_list |-> IF built.aborted THEN <<>> ELSE built.bd_list,
                          calls |-> built.calls]
            /\ UNCHANGED <<args, ret, data, frames, schedule_vars>>

\* pages/3 (mode 2): the stored report's bd_metrics, dropped when the report
\* has fewer than 4 distinct points
TemplatePage ==
    /\ report.builder = "run_template"
    /\ ~report.aborted
    /\ report' = [report EXCEPT !.builder = "template_page",
                                !.has_bd = HasBd(data),
                                !.bd_list = IF HasBd(data) THEN report.bd_list ELSE <<>>]
    /\ UNCHANGED <<args, ret, data, frames, schedule_vars>>

NextReport == ComparisonPage \/ AnalysisPage \/ RunTemplate \/ TemplatePage

SpecReport == InitReport /\ [][NextReport]_vars

----------------------------------------------------------------------------
(* Claims about the reports *)

\* a report with BD rows was asked for and no configuration error stopped it
Reported ==
    /\ report.builder # ""
    /\ report.has_bd
    /\ ~(report.builder = "run_template" /\ PointsDiffer(data))

\* ... by a builder that calls the core
Built == Reported /\ report.builder \in {"comparison_page", "run_template"}

VideoSet == {Videos[i] : i \in 1..Len(Videos)}
Range(s) == {s[i] : i \in 1..Len(s)}

\* both BD entries of video v for metric k are val
EntryIs(v, k, val) ==
    \E i \in 1..Len(report.bd_list) :
        /\ report.bd_list[i].source = v
        /\ report.bd_list[i].bd_rate[k] = val
        /\ report.bd_list[i].bd[k] = val

CallsFor(v, k) == {c \in report.calls : c.video = v /\ c.metric = k}

\* a sample is a valid (bitrate, metric) pair for metric k
Valid(item, k) ==
    item.avg_bitrate_bps # NONE /\ item.avg_bitrate_bps > 0 /\ item.metrics[k] # NONE
ValidIds(v, side, k) == {i \in 1..Len(data[v][side]) : Valid(data[v][side][i], k)}
MissingIds(v, side, k) ==
    {i \in 1..Len(data[v][side]) : data[v][side][i].metrics[k] = NONE}
PointsAt(v, side, ids) == {data[v][side][i].point : i \in ids}

\* the valid samples of a side whose point is valid on the other side too
JoinedIds(v, side, k) ==
    LET other == IF side = "anchor" THEN "test" ELSE "anchor"
    IN  {i \in ValidIds(v, side, k) :
            data[v][side][i].point \in PointsAt(v, other, ValidIds(v, other, k))}

SetMin(S) == CHOOSE x \in S : \A y \in S : x <= y
SetMax(S) == CHOOSE x \in S : \A y \in S : x >= y

\* the joined valid samples of the two sides share an interval of metric
\* values and an interval of bitrates
SeriesOverlap(v, k) ==
    LET A == JoinedIds(v, "anchor", k)
        T == JoinedIds(v, "test", k)
        ma == {data[v]["anchor"][i].metrics[k] : i \in A}
        mt == {data[v]["test"][i].metrics[k] : i \in T}
        ra == {data[v]["anchor"][i].avg_bitrate_bps : i \in A}
        rt == {data[v]["test"][i].avg_bitrate_bps : i \in T}
    IN  /\ A # {} /\ T # {}
        /\ Max2(SetMin(ma), SetMin(mt)) < Min2(SetMax(ma), SetMax(mt))
        /\ Max2(SetMin(ra), SetMin(rt)) < Min2(SetMax(ra), SetMax(rt))

\* a 5-point series on both sides, every bitrate present
FivePoints(v) ==
    \A side \in Sides :
        /\ Len(data[v][side]) = 5
        /\ Cardinality(PointsAt(v, side, 1..5)) = 5
        /\ \A i \in 1..5 : data[v][side][i].avg_bitrate_bps # NONE

\* one sample of the series lacks the value of metric k
OneMissing(v, k) ==
    Cardinality(MissingIds(v, "anchor", k)) + Cardinality(MissingIds(v, "test", k)) = 1

PairsProceed(v, k) ==
    /\ EntryIs(v, k, "Value")
    /\ \A c \in CallsFor(v, k) :
          /\ Len(c.rate1) = Len(c.metric1) /\ Len(c.rate2) = Len(c.metric2)
          /\ Range(c.ids1) \cap MissingIds(v, "anchor", k) = {}
          /\ Range(c.ids2) \cap MissingIds(v, "test", k) = {}

\* C5: with one sample of a 5-point series lacking the value of a metric, the
\* BD values of that metric are computed from the 4 remaining valid pairs
\* (no exception, no missing value among the pairs, a defined result), for
\* each of the four metrics.
C5_OneMissingStillFits ==
    \A v \in VideoSet, k \in Metrics :
        (Built /\ FivePoints(v) /\ OneMissing(v, k) /\ SeriesOverlap(v, k))
            => PairsProceed(v, k)

\* what the page does instead: 5 bitrates are fitted against 4 values and
\* the entry is undefined
C5_Witness ==
    /\ report.builder = "comparison_page" /\ report.has_bd
    /\ FivePoints("v1") /\ OneMissing("v1", "ssim") /\ SeriesOverlap("v1", "ssim")
    /\ MissingIds("v1", "anchor", "psnr") = {} /\ MissingIds("v1", "test", "psnr") = {}
    /\ EntryIs("v1", "ssim", "None")
    /\ \E c \in CallsFor("v1", "ssim") : Len(c.rate1) = 5 /\ Len(c.metric1) = 4

\* the samples behind the arguments of a call
Reaches(c, side) ==
    IF side = "anchor" THEN Range(c.ids1) \cup Range(c.rids1)
    ELSE Range(c.ids2) \cup Range(c.rids2)

\* C6: no sample without a bitrate and no sample without the metric's value
\* is among the samples whose bitrate or value is handed to _bd_rate or
\* _bd_metrics.
C6_OnlyValidSamplesReachCore ==
    Built => \A c \in report.calls, side \in Sides :
                 Reaches(c, side) \subseteq ValidIds(c.video, side, c.metric)

\* what the page does instead: the bitrate 0 of a sample without a bitrate is
\* among the arguments
C6_Witness ==
    /\ report.builder = "comparison_page" /\ report.has_bd
    /\ \E c \in report.calls :
          /\ \E i \in 1..Len(c.rate1) : c.rate1[i] = 0
          /\ \E i \in Range(c.rids1) : data[c.video]["anchor"][i].avg_bitrate_bps = NONE

\* C7: in every call of the core, the samples behind the anchor's arguments
\* and the samples behind the test's arguments are at the same rate-control
\* points: a point present or valid on one side only is in neither fit.
C7_OnlyJoinedPointsAreFitted ==
    Built => \A c \in report.calls :
                 /\ PointsAt(c.video, "anchor", Range(c.ids1))
                        = PointsAt(c.video, "test", Range(c.ids2))
                 /\ PointsAt(c.video, "anchor", Range(c.rids1))
                        = PointsAt(c.video, "test", Range(c.rids2))

\* what run_template does instead: the point whose anchor sample lacks the
\* metric is fitted on the test side
C7_Witness ==
    /\ report.builder = "run_template" /\ ~report.aborted
    /\ \E c \in report.calls :
          /\ Len(c.metric1) = 4 /\ Len(c.metric2) = 5
          /\ PointsAt(c.video, "test", Range(c.ids2))
                 \ PointsAt(c.video, "anchor", Range(c.ids1)) # {}

\* no sample of video v lacks its bitrate
BitratesPresent(v) ==
    \A side \in Sides : \A i \in 1..Len(data[v][side]) :
        data[v][side][i].avg_bitrate_bps # NONE

\* at least 4 valid pairs of metric k remain on either side after filtering
EnoughValid(v, k) ==
    \A side \in Sides : Cardinality(JoinedIds(v, side, k)) >= 4
\* fewer than 4 valid pairs of metric k remain on a side
TooFewValid(v, k) ==
    \E side \in Sides : Cardinality(ValidIds(v, side, k)) < 4

\* C8: whether the BD values of a metric are undefined for lack of data is
\* decided by the number of valid pairs of that metric left on each side
\* after filtering: with 4 or more on both sides (and overlapping curves) they
\* are not undefined, with fewer than 4 on a side they are.
C8_ThresholdOnFilteredPairs ==
    \A v \in VideoSet, k \in Metrics :
        /\ (Built /\ BitratesPresent(v) /\ EnoughValid(v, k) /\ SeriesOverlap(v, k))
               => ~EntryIs(v, k, "None")
        /\ (Built /\ BitratesPresent(v) /\ TooFewValid(v, k)) => EntryIs(v, k, "None")

\* what the page does instead: 4 valid SSIM pairs on both sides, 3 bitrates
\* left by the PSNR filter, and the SSIM entries are undefined
C8_Witness ==
    /\ report.builder = "comparison_page" /\ report.has_bd
    /\ BitratesPresent("v1") /\ EnoughValid("v1", "ssim") /\ SeriesOverlap("v1", "ssim")
    /\ EntryIs("v1", "ssim", "None")
    /\ \E c \in CallsFor("v1", "ssim") : Len(c.rate1) = 3 /\ Len(c.metric1) = 4

\* the arguments of call c meet a data-quality condition: too few points, a
\* fit that fails, or curves that do not overlap
CallUndefined(c) ==
    \/ InsufficientPoints(c.rate1, c.rate2)
    \/ FitFails(c.rate1, c.metric1) \/ FitFails(c.rate2, c.metric2)
    \/ /\ c.fn = "_bd_rate"
       /\ NoOverlap(Max2(SeqMin(c.metric1), SeqMin(c.metric2)),
                    Min2(SeqMax(c.metric1), SeqMax(c.metric2)))
    \/ /\ c.fn = "_bd_metrics"
       /\ NoOverlap(Max2(SeqMin(NpLog(c.rate1)), SeqMin(NpLog(c.rate2))),
                    Min2(SeqMax(NpLog(c.rate1)), SeqMax(NpLog(c.rate2))))

BadInputs(v, k) == \A c \in CallsFor(v, k) : CallUndefined(c)

\* C9: a report is not aborted by a video's data: it has one BD row per
\* video, and the entries of a video and metric whose inputs meet a
\* data-quality condition are undefined (None).
C9_BadVideoDoesNotAbort ==
    Reported =>
        /\ ~report.aborted
        /\ \A v \in VideoSet : \E i \in 1..Len(report.bd_list) : report.bd_list[i].source = v
        /\ \A v \in VideoSet, k \in Metrics : BadInputs(v, k) => EntryIs(v, k, "None")

\* what the page does instead: the entries of the video with a bitrate of 0
\* are NaN; the other video's row is produced
C9_Witness ==
    /\ report.builder = "comparison_page" /\ report.has_bd /\ ~report.aborted
    /\ BadInputs("v1", "psnr") /\ EntryIs("v1", "psnr", "NaN")
    /\ EntryIs("v2", "psnr", "Value")

\* C10 as stated: with fewer than 4 distinct rate-control points in the
\* report, no builder calls the core for any video or metric.
C10_NoCallBelowFourPoints ==
    (report.builder # "" /\ point_count(data) < 4) => report.calls = {}

\* C10 as the code has it: the comparison page decides before it builds the
\* BD rows, so it makes no call and shows no BD row; the template page shows
\* no BD row of a stored report with fewer than 4 distinct points.
C10_PagesGateOnDistinctPoints ==
    /\ (report.builder = "comparison_page" /\ point_count(data) < 4)
           => (report.calls = {} /\ report.bd_list = <<>>)
    /\ (report.builder = "template_page" /\ point_count(data) < 4)
           => report.bd_list = <<>>

\* 4 samples a side at 3 distinct points: the page makes no call
C10_Witness ==
    /\ report.builder = "comparison_page"
    /\ point_count(data) = 3
    /\ \A v \in VideoSet, side \in Sides : Len(data[v][side]) = 4
    /\ report.calls = {} /\ report.bd_list = <<>>

\* C15: in every call a builder makes, the i-th bitrate and the i-th metric
\* value of a side come from the same sample (row), for every metric and
\* every pattern of missing values.
C15_PairsFromSameRow ==
    Built => \A c \in report.calls : c.ids1 = c.rids1 /\ c.ids2 = c.rids2

\* what the page does instead: PSNR missing at point 1, SSIM at point 2: the
\* SSIM values of points 1, 3, 4, 5 are fitted against the bitrates of points
\* 2, 3, 4, 5, and the entries are numbers
C15_Witness ==
    /\ report.builder = "comparison_page" /\ report.has_bd
    /\ EntryIs("v1", "ssim", "Value")
    /\ \E c \in CallsFor("v1", "ssim") :
          /\ Len(c.rate1) = 4 /\ Len(c.metric1) = 4
          /\ c.ids1 = <<1, 3, 4, 5>> /\ c.rids1 = <<2, 3, 4, 5>>

----------------------------------------------------------------------------
(* The value of the BD core.  The samples of a side lie on a straight line in
   the (metric, log2 bitrate) plane and the bitrates are powers of two, so
   that every step of the computation is exact in rational arithmetic: the
   least-squares cubic of four or more points of a line is that line, the
   PCHIP interpolant of points of a line is that line, and the trapezoid
   rule is exact on it.  Logarithms are to base 2, which scales avg_exp_diff
   by a positive constant and leaves the sign of the result alone. *)

\* most samples of a side in a valued call
MaxVal == 5
\* largest shift of the test's samples against the anchor's, in either axis
MaxShift == 1

Abs(x) == IF x < 0 THEN -x ELSE x
RECURSIVE Gcd(_, _)
Gcd(a, b) == IF b = 0 THEN a ELSE Gcd(b, a % b)

\* the float num / den, in lowest terms with a positive denominator (pts is
\* empty for a number that is known)
Rat(num, den) ==
    LET g == Gcd(Abs(num), Abs(den))
        sgn == IF den < 0 THEN -1 ELSE 1
    IN  [num |-> sgn * (num \div g), den |-> sgn * (den \div g), pts |-> <<>>]
RatSub(p, q) == Rat(p.num * q.den - q.num * p.den, p.den * q.den)
RatDiv(p, q) == Rat(p.num * q.den, p.den * q.num)

\* sums over a sequence, taken in the order of the sequence
RECURSIVE Sum(_)
Sum(s) == IF s = <<>> THEN 0 ELSE s[1] + Sum(Tail(s))
Times(x, y) == [i \in 1..Len(x) |-> x[i] * y[i]]

\* np.polyfit(x, y, 3) on points of a line: the solution of the normal
\* equations, the polynomial (a*t + b) / d
polyfit(x, y) ==
    LET n == Len(x)
        Sx == Sum(x)
        Sy == Sum(y)
        Sxx == Sum(Times(x, x))
        Sxy == Sum(Times(x, y))
    IN  [a |-> n * Sxy - Sx * Sy, b |-> Sy * Sxx - Sx * Sxy, d |-> n * Sxx - Sx * Sx]

\* np.polyval(np.polyint(p), max_int) - np.polyval(np.polyint(p), min_int)
polyint(p, min_int, max_int) ==
    Rat((max_int - min_int) * (p.a * (max_int + min_int) + 2 * p.b), 2 * p.d)

\* np.argsort(x): the positions of x in the order of their values (stable)
RECURSIVE argsort(_)
argsort(x) ==
    IF x = <<>> THEN <<>>
    ELSE LET n == Len(x)
             rest == argsort(SubSeq(x, 1, n - 1))
             pos == Cardinality({i \in 1..Len(rest) : x[rest[i]] <= x[n]})
         IN  SubSeq(rest, 1, pos) \o <<n>> \o SubSeq(rest, pos + 1, Len(rest))

\* y[idx] for an array y, and np.sort(x)
Take(y, idx) == [i \in 1..Len(idx) |-> y[idx[i]]]
np_sort(x) == Take(x, argsort(x))

\* the points (xs[i], ys[i]) lie on one line
Collinear(xs, ys) ==
    \A i \in 1..Len(xs) :
        (ys[i] - ys[1]) * (xs[Len(xs)] - xs[1]) = (ys[Len(xs)] - ys[1]) * (xs[i] - xs[1])

\* np.trapz(pchip_interpolate(xs, ys, samples), dx=interval) over
\* [min_int, max_int]: the integral of the line through the points; of points
\* that are not on a line, only that it is some other number ("curve")
pchip_trapz(xs, ys, min_int, max_int) ==
    IF Collinear(xs, ys)
    THEN LET d == xs[Len(xs)] - xs[1]
             a == ys[Len(xs)] - ys[1]
         IN  polyint([a |-> a, b |-> ys[1] * d - a * xs[1], d |-> d], min_int, max_int)
    ELSE [num |-> 0, den |-> 0, pts |-> <<xs, ys>>]

\* (int2 - int1) / (max_int - min_int)
AvgDiff_swapped(int1, int2, min_int, max_int) ==
    IF int1.den = 0 \/ int2.den = 0 THEN [num |-> 0, den |-> 0, pts |-> <<int1.pts, int2.pts>>]
    ELSE RatDiv(RatSub(int1, int2), Rat(max_int - min_int, 1))
AvgDiff(int1, int2, min_int, max_int) ==
    IF int1.den = 0 \/ int2.den = 0 THEN [num |-> 0, den |-> 0, pts |-> <<int1.pts, int2.pts>>]
    ELSE RatDiv(RatSub(int2, int1), Rat(max_int - min_int, 1))

\* avg_exp_diff of _bd_rate, for a call that returns a value
avg_exp_diff(rate1, metric1, rate2, metric2, piecewise) ==
    LET lR1 == NpLog(rate1)
        lR2 == NpLog(rate2)
        min_int == Max2(SeqMin(metric1), SeqMin(metric2))
        max_int == Min2(SeqMax(metric1), SeqMax(metric2))
    IN  IF piecewise = 0
        THEN AvgDiff(polyint(polyfit(metric1, lR1), min_int, max_int),
                     polyint(polyfit(metric2, lR2), min_int, max_int), min_int, max_int)
        ELSE AvgDiff(pchip_trapz(np_sort(metric1), Take(lR1, argsort(metric1)), min_int, max_int),
                     pchip_trapz(np_sort(metric2), Take(lR2, argsort(metric2)), min_int, max_int),
                     min_int, max_int)

\* avg_diff of _bd_metrics, for a call that returns a value (exact mode: the
\* piecewise branch raises before it integrates)
avg_diff_int1_int2(rate1, metric1, rate2, metric2) ==
    LET lR1 == NpLog(rate1)
        lR2 == NpLog(rate2)
        min_int == Max2(SeqMin(lR1), SeqMin(lR2))
        max_int == Min2(SeqMax(lR1), SeqMax(lR2))
    IN  AvgDiff(polyint(polyfit(lR2, metric2), min_int, max_int),
                polyint(polyfit(lR1, metric1), min_int, max_int), min_int, max_int)
avg_diff(rate1, metric1, rate2, metric2) ==
    LET lR1 == NpLog(rate1)
        lR2 == NpLog(rate2)
        min_int == Max2(SeqMin(lR1), SeqMin(lR2))
        max_int == Min2(SeqMax(lR1), SeqMax(lR2))
    IN  AvgDiff(polyint(polyfit(lR1, metric1), min_int, max_int),
                polyint(polyfit(lR2, metric2), min_int, max_int), min_int, max_int)

----------------------------------------------------------------------------
(* Valued calls of the core, in any order of the samples.  A behaviour is
   one call. *)

\* The anchor's samples: metric values 1..n, bitrates 2^(MaxShift+i).  The
\* test's samples: metric values dm+i, bitrates 2^(MaxShift+dr+k*i): shifted
\* by dm in quality and by dr in log-bitrate, k times as steep.
AnchorLine(n) ==
    [rate |-> [i \in 1..n |-> Pow2(MaxShift + i)], metric |-> [i \in 1..n |-> i]]
TestLine(n, dm, dr, k) ==
    [rate |-> [i \in 1..n |-> Pow2(MaxShift + dr + k * i)], metric |-> [i \in 1..n |-> dm + i]]

ValueInputs ==
    { [rate1 |-> AnchorLine(n1).rate, metric1 |-> AnchorLine(n1).metric,
       rate2 |-> TestLine(n2, dm, dr, k).rate, metric2 |-> TestLine(n2, dm, dr, k).metric] :
        n1 \in 4..MaxVal, n2 \in 4..MaxVal,
        dm \in -MaxShift..MaxShift, dr \in -MaxShift..MaxShift, k \in 1..2 }

\* orders in which a caller may hand over the samples of a side
Orders == {"given", "reversed", "rotated", "swapped"}
Shuffle(s, o) ==
    LET n == Len(s)
    IN  IF o = "reversed" THEN [i \in 1..n |-> s[n + 1 - i]]
        ELSE IF o = "rotated" THEN [i \in 1..n |-> s[(i % n) + 1]]
        ELSE IF o = "swapped" THEN [i \in 1..n |-> IF i = 1 THEN s[2] ELSE IF i = 2 THEN s[1] ELSE s[i]]
        ELSE s

NoVal == [num |-> 0, den |-> 0, pts |-> <<>>]

InitValue ==
    /\ args \in ValueInputs
    /\ ret = NoCall
    /\ data = NoData
    /\ report = NoReport
    /\ frames = NoFrames
    /\ NoSchedules

\* _bd_rate(rate1, metric1, rate2, metric2, piecewise), each side's samples
\* in an order of its own
ValuedBdRate ==
    \E piecewise \in 0..1, nonfinite \in NonFinite, o1 \in Orders, o2 \in Orders :
        LET r1 == Shuffle(args.rate1, o1)
            m1 == Shuffle(args.metric1, o1)
            r2 == Shuffle(args.rate2, o2)
            m2 == Shuffle(args.metric2, o2)
            res == _bd_rate(r1, m1, r2, m2, piecewise, nonfinite)
        IN  /\ ret = NoCall
            /\ ret' = [fn |-> "_bd_rate", piecewise |-> piecewise, res |-> res,
                       val |-> IF res = "Value" THEN avg_exp_diff(r1, m1, r2, m2, piecewise)
                               ELSE NoVal,
                       o1 |-> o1, o2 |-> o2]
            /\ UNCHANGED <<args, data, report, frames, schedule_vars>>

ValuedBdMetrics ==
    \E piecewise \in 0..1, nonfinite \in NonFinite, o1 \in Orders, o2 \in Orders :
        LET r1 == Shuffle(args.rate1, o1)
            m1 == Shuffle(args.metric1, o1)
            r2 == Shuffle(args.rate2, o2)
            m2 == Shuffle(args.metric2, o2)
            res == _bd_metrics(r1, m1, r2, m2, piecewise, nonfinite)
        IN  /\ ret = NoCall
            /\ ret' = [fn |-> "_bd_metrics", piecewise |-> piecewise, res |-> res,
                       val |-> IF res = "Value" THEN avg_diff(r1, m1, r2, m2) ELSE NoVal,
                       o1 |-> o1, o2 |-> o2]
            /\ UNCHANGED <<args, data, report, frames, schedule_vars>>

NextValue == ValuedBdRate \/ ValuedBdMetrics

SpecValue == InitValue /\ [][NextValue]_vars

----------------------------------------------------------------------------
(* Claims about the value of the core, checked under SpecValue *)

\* the result of the same call with the samples in the given order
GivenOrderValue ==
    IF ret.fn = "_bd_rate"
    THEN avg_exp_diff(args.rate1, args.metric1, args.rate2, args.metric2, ret.piecewise)
    ELSE avg_diff(args.rate1, args.metric1, args.rate2, args.metric2)

\* C11: a call with the samples of either side in another order (pairs kept
\* together) returns a BD value, and it is the value of the call with the
\* samples in the given order, in exact mode and in piecewise mode, for
\* _bd_rate and for _bd_metrics.
C11_ShuffleInvariant ==
    Called => (ret.res = "Value" /\ ret.val = GivenOrderValue)

\* what the code does instead: _bd_metrics in piecewise mode raises
C11_Witness ==
    /\ ret.fn = "_bd_metrics" /\ ret.piecewise = 1
    /\ ret.o1 = "reversed"
    /\ ret.res = "Raise"

RatLess(p, q) == p.num * q.den < q.num * p.den

\* the value at t of the line through the first and the last of the points
\* (x[i], y[i]), for x in increasing order
LineAt(x, y, t) ==
    LET n == Len(x)
    IN  Rat(y[1] * (x[n] - x[1]) + (y[n] - y[1]) * (t - x[1]), x[n] - x[1])

\* the qualities both sides cover
QualityLow == Max2(SeqMin(args.metric1), SeqMin(args.metric2))
QualityHigh == Min2(SeqMax(args.metric1), SeqMax(args.metric2))

\* at every quality both sides cover, the test's curve needs less bitrate
\* than the anchor's (lines: it is enough to compare at the two ends)
TestUsesLessBitrate ==
    \A q \in {QualityLow, QualityHigh} :
        RatLess(LineAt(args.metric2, NpLog(args.rate2), q),
                LineAt(args.metric1, NpLog(args.rate1), q))

\* C12: _bd_rate returns (exp(avg_exp_diff) - 1) * 100 with avg_exp_diff the
\* test's area minus the anchor's over the overlap width, which is negative
\* whenever the test uses less bitrate than the anchor at equal quality.
C12_BdRateNegativeWhenTestBetter ==
    (ret.fn = "_bd_rate" /\ TestUsesLessBitrate)
        => (ret.res = "Value" /\ ret.val.den > 0 /\ ret.val.num < 0)

\* the example, with powers of two as bitrates: same metric values, the test
\* at half the anchor's bitrate; avg_exp_diff is -1 (log2), the result -50
C12_Witness ==
    /\ ret.fn = "_bd_rate"
    /\ args.metric1 = args.metric2
    /\ \A i \in 1..Len(args.rate1) : 2 * args.rate2[i] = args.rate1[i]
    /\ TestUsesLessBitrate
    /\ ret.val = Rat(-1, 1)

\* the bitrates (log2) both sides cover
RateLow == Max2(SeqMin(NpLog(args.rate1)), SeqMin(NpLog(args.rate2)))
RateHigh == Min2(SeqMax(NpLog(args.rate1)), SeqMax(NpLog(args.rate2)))

\* at every bitrate both sides cover, the test's curve has the higher metric
TestHasHigherMetric ==
    \A r \in {RateLow, RateHigh} :
        RatLess(LineAt(NpLog(args.rate1), args.metric1, r),
                LineAt(NpLog(args.rate2), args.metric2, r))

----------------------------------------------------------------------------
(* Concurrent calls of _bd_rate.  A call runs in steps, and between two steps
   of a call any other call may take steps of its own (threads of page
   sessions).  Calls 1 and 2 have identical arguments; call 3 is another call
   with the sides exchanged, in piecewise mode. *)

Calls == {1, 2, 3}

\* a call of a Python function gets a frame of its own for its arguments and
\* local variables
Frame_shared(c) == 1
Frame(c) == c

ArgsOf(c) ==
    IF c \in {1, 2}
    THEN [rate1 |-> args.rate1, metric1 |-> args.metric1,
          rate2 |-> args.rate2, metric2 |-> args.metric2, piecewise |-> 0]
    ELSE [rate1 |-> args.rate2, metric1 |-> args.metric2,
          rate2 |-> args.rate1, metric2 |-> args.metric1, piecewise |-> 1]

NoLocals ==
    [rate1 |-> <<>>, metric1 |-> <<>>, rate2 |-> <<>>, metric2 |-> <<>>, piecewise |-> 0,
     lR1 |-> <<>>, lR2 |-> <<>>, min_int |-> 0, max_int |-> 0, int1 |-> NoVal, int2 |-> NoVal]
NoOut == [res |-> "", val |-> NoVal]

InitFrames ==
    /\ args \in ValueInputs
    /\ ret = NoCall
    /\ data = NoData
    /\ report = NoReport
    /\ frames = [pc |-> [c \in Calls |-> "call"],
                 locals |-> [f \in Calls |-> NoLocals],
                 out |-> [c \in Calls |-> NoOut]]
    /\ NoSchedules

Locals(c) == frames.locals[Frame(c)]
Return(c, res, val) ==
    frames' = [frames EXCEPT !.pc[c] = "done", !.out[c] = [res |-> res, val |-> val]]
Step(c, pc, locals) ==
    frames' = [frames EXCEPT !.pc[c] = pc, !.locals[Frame(c)] = locals]

\* the call binds its arguments; `if len(rate1) < 4 or len(rate2) < 4`
Enter(c) ==
    /\ frames.pc[c] = "call"
    /\ LET a == ArgsOf(c)
       IN  Step(c, "guard", [NoLocals EXCEPT !.rate1 = a.rate1, !.metric1 = a.metric1,
                                !.rate2 = a.rate2, !.metric2 = a.metric2,
                                !.piecewise = a.piecewise])
    /\ UNCHANGED <<args, ret, data, report, schedule_vars>>

Guard(c) ==
    /\ frames.pc[c] = "guard"
    /\ IF InsufficientPoints(Locals(c).rate1, Locals(c).rate2)
       THEN Return(c, "None", NoVal)
       ELSE Step(c, "log", Locals(c))
    /\ UNCHANGED <<args, ret, data, report, schedule_vars>>

\* lR1 = np.log(rate1); lR2 = np.log(rate2)
TakeLogs(c) ==
    /\ frames.pc[c] = "log"
    /\ Step(c, "fit", [Locals(c) EXCEPT !.lR1 = NpLog(Locals(c).rate1),
                                        !.lR2 = NpLog(Locals(c).rate2)])
    /\ UNCHANGED <<args, ret, data, report, schedule_vars>>

\* the two fits in the try block, min_int, max_int and the overlap guard
FitAndBounds(c) ==
    /\ frames.pc[c] = "fit"
    /\ \E nonfinite \in NonFinite :
        LET l == Locals(c)
            p1 == Polyfit(l.metric1, l.lR1, nonfinite)
            p2 == Polyfit(l.metric2, l.lR2, nonfinite)
            min_int == Max2(SeqMin(l.metric1), SeqMin(l.metric2))
            max_int == Min2(SeqMax(l.metric1), SeqMax(l.metric2))
        IN  IF Caught(p1, p2) THEN Return(c, "None", NoVal)
            ELSE IF FitRaised(p1, p2) THEN Return(c, "Raise", NoVal)
            ELSE IF NoOverlap(min_int, max_int) THEN Return(c, "None", NoVal)
            ELSE Step(c, "integrate", [l EXCEPT !.min_int = min_int, !.max_int = max_int])
    /\ UNCHANGED <<args, ret, data, report, schedule_vars>>

\* int1 and int2, by polyint/polyval or by pchip/trapz
Integrate(c) ==
    /\ frames.pc[c] = "integrate"
    /\ LET l == Locals(c)
       IN  Step(c, "return",
               [l EXCEPT
                 !.int1 = IF l.piecewise = 0
                          THEN polyint(polyfit(l.metric1, l.lR1), l.min_int, l.max_int)
                          ELSE pchip_trapz(np_sort(l.metric1), Take(l.lR1, argsort(l.metric1)),
                                           l.min_int, l.max_int),
                 !.int2 = IF l.piecewise = 0
                          THEN polyint(polyfit(l.metric2, l.lR2), l.min_int, l.max_int)
                          ELSE pchip_trapz(np_sort(l.metric2), Take(l.lR2, argsort(l.metric2)),
                                           l.min_int, l.max_int)])
    /\ UNCHANGED <<args, ret, data, report, schedule_vars>>

\* avg_exp_diff = (int2 - int1) / (max_int - min_int); return
Finish(c) ==
    /\ frames.pc[c] = "return"
    /\ LET l == Locals(c)
       IN  Return(c, "Value", AvgDiff(l.int1, l.int2, l.min_int, l.max_int))
    /\ UNCHANGED <<args, ret, data, report, schedule_vars>>

NextFrames ==
    \E c \in Calls :
        Enter(c) \/ Guard(c) \/ TakeLogs(c) \/ FitAndBounds(c) \/ Integrate(c) \/ Finish(c)

SpecFrames == InitFrames /\ [][NextFrames]_vars

----------------------------------------------------------------------------
(* The schedule service.

   ScheduleStorage keeps one directory per schedule id with schedule.yml and
   executions.yml in it.  Every path of the store is built by
   _get_schedule_dir, which creates the directory when it is not there.  A
   method of the store is an operator from the store to the store it leaves.

   A schedule (ScheduleMetadata) is modelled by the fields the service
   branches on: repeat ("none", or "daily" for the three cron repeats),
   status, next_execution (None, the start_time, or the time
   _calculate_next_execution returns) and last_execution_status. *)

ScheduleIds == {"s1", "s2"}
Repeats == {"none", "daily"}
\* ScheduleStatus; DISABLED is left out, the service treats it as PAUSED (every
\* test is `status != ACTIVE`)
Statuses == {"active", "paused"}

NotFound == [schedule_id |-> "None"]
NoDir == [dir |-> "absent", schedule |-> NotFound, executions |-> <<>>]

ScheduleMetadata(schedule_id, repeat) ==
    [schedule_id |-> schedule_id, repeat |-> repeat, status |-> "active",
     next_execution |-> "start_time", last_execution_status |-> "None"]

\* mkdir(parents=True, exist_ok=True): "bare" is a directory without the
\* workspace and logs subdirectories
_get_schedule_dir(st, schedule_id) ==
    IF st[schedule_id].dir = "absent"
    THEN [st EXCEPT ![schedule_id].dir = "bare"]
    ELSE st

storage_create_schedule(st, schedule) ==
    [st EXCEPT ![schedule.schedule_id] =
        [dir |-> "full", schedule |-> schedule, executions |-> @.executions]]

\* what get_schedule returns; building the path leaves _get_schedule_dir's
\* directory behind, which the callers apply to the store
get_schedule(st, schedule_id) == st[schedule_id].schedule

storage_update_schedule(st, schedule_id, schedule) ==
    [_get_schedule_dir(st, schedule_id) EXCEPT ![schedule_id].schedule = schedule]

storage_delete_schedule(st, schedule_id) ==
    [st EXCEPT ![schedule_id] = NoDir]

list_schedules(st) ==
    { st[id].schedule : id \in { i \in ScheduleIds : st[i].schedule # NotFound } }

\* list.sort(key=executed_at, reverse=True): stable, latest first
SortLatestFirst(executions) ==
    LET n == Len(executions)
        Before(j, i) ==
            \/ executions[j].executed_at > executions[i].executed_at
            \/ executions[j].executed_at = executions[i].executed_at /\ j < i
        place == [i \in 1..n |-> 1 + Cardinality({ j \in 1..n : Before(j, i) })]
    IN  [k \in 1..n |-> executions[CHOOSE i \in 1..n : place[i] = k]]

KeepLast == 100
LoadLimit == 1000

list_executions(st, schedule_id, limit) ==
    LET executions == SortLatestFirst(st[schedule_id].executions)
    IN  SubSeq(executions, 1, Min2(limit, Len(executions)))

\* executions[-100:] of the loaded list with the new record appended
add_execution(st, schedule_id, execution) ==
    LET executions == Append(list_executions(st, schedule_id, LoadLimit), execution)
        first == Max2(1, Len(executions) - KeepLast + 1)
    IN  [_get_schedule_dir(st, schedule_id) EXCEPT
            ![schedule_id].executions = SubSeq(executions, first, Len(executions))]

\* open(<dir>/logs/<file>, "w") raises when the logs directory is not there
save_build_log_raises(st, schedule_id) == st[schedule_id].dir # "full"

----------------------------------------------------------------------------
(* SchedulerService and the AsyncIOScheduler it owns.  The job store maps a
   schedule id to its job: the kind of trigger and whether the job is paused.
   The executor counts the running instances per job id and does not submit
   a job that has max_instances of them.  A method of the service is an
   operator from the scheduler to the scheduler it leaves; the exceptions of
   remove_job, pause_job and resume_job for an unknown id are caught. *)

NoJob == [trigger |-> "None", paused |-> FALSE]
max_instances == 1

Registered(sch, schedule_id) == sch.jobs[schedule_id] # NoJob

_create_trigger(schedule) ==
    IF schedule.repeat = "none" THEN "date" ELSE "cron"

add_schedule(sch, schedule) ==
    IF schedule.status # "active" THEN sch
    ELSE [sch EXCEPT !.jobs[schedule.schedule_id] =
              [trigger |-> _create_trigger(schedule), paused |-> FALSE]]

remove_schedule(sch, schedule_id) ==
    [sch EXCEPT !.jobs[schedule_id] = NoJob]

service_update_schedule(sch, schedule) ==
    add_schedule(remove_schedule(sch, schedule.schedule_id), schedule)

service_pause_schedule(sch, schedule_id) ==
    IF Registered(sch, schedule_id)
    THEN [sch EXCEPT !.jobs[schedule_id].paused = TRUE]
    ELSE sch

service_resume_schedule(sch, schedule_id) ==
    IF Registered(sch, schedule_id)
    THEN [sch EXCEPT !.jobs[schedule_id].paused = FALSE]
    ELSE sch

----------------------------------------------------------------------------
(* ScheduleRunner.execute and SchedulerService._execute_schedule.

   _execute_schedule is a coroutine.  It is suspended in two places, both
   inside ScheduleRunner.execute: while the encoder is built and while the
   job runs.  Everything between two suspensions runs without interruption
   on the event loop, and so does every API handler (none of them awaits).
   A task is such a coroutine: the schedule id it was called with, who
   called it, where it is suspended, and the ScheduleMetadata object it
   loaded when it began. *)

MaxRuns == 2

Origins == {"job", "trigger", "startup"}

NewTask(schedule_id, origin) ==
    [schedule_id |-> schedule_id, origin |-> origin, pc |-> "created",
     schedule |-> NotFound, executed_at |-> 0]

RemoveAt(seq, i) == SubSeq(seq, 1, i - 1) \o SubSeq(seq, i + 1, Len(seq))

Pending == Cardinality({ i \in 1..Len(tasks) : tasks[i].pc = "created" })

\* room for one more call of _execute_schedule
MayRun == clock + Pending < MaxRuns

\* the executor's bookkeeping when the coroutine of a job returns
Released(sch, task) ==
    IF task.origin = "job"
    THEN [sch EXCEPT !.instances[task.schedule_id] = @ - 1]
    ELSE sch

\* the exceptions a step of execute can raise: an Exception whose str() is a
\* message, an Exception whose str() is empty (TimeoutError(), ...), and a
\* BaseException that is not an Exception (asyncio.CancelledError, ...)
Exceptions == {"Exception", "ExceptionNoMessage", "BaseException"}

str(e) == IF e = "ExceptionNoMessage" THEN "" ELSE "error"

\* Python's `not error_message` for None, "" and a message
not(error_message) == error_message = "None" \/ error_message = ""

\* lines 106-134 of ScheduleRunner.execute: the execution record (modelled by
\* its executed_at) is stored and the schedule object the task holds is written
\* back
execute_record(st, schedule, executed_at, error_message) ==
    LET execution == [executed_at |-> executed_at]
        updated == [schedule EXCEPT
                       !.last_execution_status =
                           IF not(error_message) THEN "success" ELSE "failed",
                       !.next_execution =
                           IF schedule.repeat # "none" /\ schedule.status = "active"
                           THEN "calculated" ELSE "None"]
    IN  storage_update_schedule(add_execution(st, schedule.schedule_id, execution),
                                schedule.schedule_id, updated)

\* lines 200-204 of _execute_schedule: the schedule is loaded again and, when it
\* is active, registered again
reload_schedule(st, sch, schedule_id) ==
    LET updated_schedule == get_schedule(st, schedule_id)
    IN  IF updated_schedule # NotFound /\ updated_schedule.status = "active"
        THEN service_update_schedule(sch, updated_schedule)
        ELSE sch

\* execute returns: the rest of execute and of _execute_schedule
Complete(t, st, error_message) ==
    LET task == tasks[t]
        stored == execute_record(st, task.schedule, task.executed_at, error_message)
    IN  /\ storage' = stored
        /\ scheduler' = Released(reload_schedule(stored, scheduler, task.schedule_id), task)
        /\ tasks' = RemoveAt(tasks, t)
        /\ api' = [api EXCEPT
                      !.ran = IF task.origin = "job" /\ task.schedule.repeat = "none"
                              THEN @ \cup {task.schedule_id} ELSE @,
                      !.triggered = IF task.origin = "trigger"
                                    THEN @ \cup {task.schedule_id} ELSE @]
        /\ UNCHANGED <<clock, bd_vars>>

\* an exception that `except Exception` does not catch leaves execute and
\* _execute_schedule: nothing is recorded
Abort(t, st) ==
    /\ storage' = st
    /\ scheduler' = Released(scheduler, tasks[t])
    /\ tasks' = RemoveAt(tasks, t)
    /\ UNCHANGED <<clock, api, bd_vars>>

\* a step of execute raises e inside the try block (lines 59-104)
Raise(t, st, e) ==
    IF e = "BaseException" THEN Abort(t, st) ELSE Complete(t, st, str(e))

\* _execute_schedule from its first line to the first suspension of execute
Entered(task, st) ==
    LET schedule == get_schedule(st, task.schedule_id)
    IN  IF schedule = NotFound \/ schedule.status # "active"
        THEN NotFound
        ELSE schedule

Begin(t) ==
    /\ t \in 1..Len(tasks)
    /\ tasks[t].pc = "created"
    /\ LET task == tasks[t]
           schedule == Entered(task, storage)
       IN  /\ storage' = _get_schedule_dir(storage, task.schedule_id)
           /\ IF schedule = NotFound
              THEN /\ tasks' = RemoveAt(tasks, t)
                   /\ scheduler' = Released(scheduler, task)
                   /\ clock' = clock
              ELSE /\ tasks' = [tasks EXCEPT ![t] = [task EXCEPT !.pc = "build",
                                    !.schedule = schedule, !.executed_at = clock + 1]]
                   /\ scheduler' = scheduler
                   /\ clock' = clock + 1
    /\ UNCHANGED <<api, bd_vars>>

\* _build_encoder returns or raises; "template" is a build that succeeded
\* followed by an exception of _load_template_with_encoder or _create_job
BuildOutcomes == {"raise", "failed", "template", "success"}

BuildDone(t) ==
    /\ t \in 1..Len(tasks)
    /\ tasks[t].pc = "build"
    /\ \E outcome \in BuildOutcomes :
       \E build_log \in IF outcome = "raise" THEN {FALSE} ELSE BOOLEAN :
       \E e \in IF outcome \in {"raise", "template"} THEN Exceptions ELSE {"Exception"} :
         LET task == tasks[t]
             saved == outcome # "raise" /\ build_log
             st == IF saved THEN _get_schedule_dir(storage, task.schedule_id) ELSE storage
         IN  IF saved /\ save_build_log_raises(st, task.schedule_id)
             THEN Complete(t, st, "error")
             ELSE CASE outcome \in {"raise", "template"} -> Raise(t, st, e)
                    [] outcome = "failed" -> Complete(t, st, "error")
                    [] outcome = "success" ->
                          /\ storage' = st
                          /\ tasks' = [tasks EXCEPT ![t].pc = "job"]
                          /\ UNCHANGED <<scheduler, clock, api, bd_vars>>

\* _run_job returns or raises
JobDone(t) ==
    /\ t \in 1..Len(tasks)
    /\ tasks[t].pc = "job"
    /\ \/ Complete(t, storage, "None")
       \/ \E e \in Exceptions : Raise(t, storage, e)

----------------------------------------------------------------------------
(* The service from its construction: the store holds what an earlier run of
   the service left (no schedule, or the schedule "s1"), the scheduler is
   not running. *)

StoredBefore ==
    { [ScheduleMetadata("s1", repeat) EXCEPT !.status = status] :
        repeat \in Repeats, status \in Statuses }

NoApi == [issued |-> {}, paused |-> {}, deleted |-> {}, ran |-> {}, triggered |-> {}]

InitSchedule ==
    /\ storage \in { [id \in ScheduleIds |-> NoDir] }
           \cup { storage_create_schedule([id \in ScheduleIds |-> NoDir], schedule) :
                    schedule \in StoredBefore }
    /\ scheduler = [jobs |-> [id \in ScheduleIds |-> NoJob],
                    instances |-> [id \in ScheduleIds |-> 0],
                    _running |-> FALSE]
    /\ tasks = <<>>
    /\ clock = 0
    /\ api = [NoApi EXCEPT !.issued = { id \in ScheduleIds : storage[id] # NoDir }]
    /\ args = <<>>
    /\ ret = NoCall
    /\ data = NoData
    /\ report = NoReport
    /\ frames = NoFrames

\* SchedulerService.start with load_schedules: an active schedule that is due
\* is executed at once (the call runs to the first suspension of execute),
\* any other active schedule is registered
start ==
    /\ ~scheduler._running
    /\ \E due \in BOOLEAN :
         LET schedules == list_schedules(storage)
             now == { schedule \in schedules :
                        /\ schedule.status = "active"
                        /\ schedule.next_execution # "None" /\ due }
             later == { schedule \in schedules : schedule.status = "active" } \ now
             started == [scheduler EXCEPT !._running = TRUE]
         IN  /\ scheduler' =
                   IF later = {} THEN started
                   ELSE add_schedule(started, CHOOSE schedule \in later : TRUE)
             /\ IF now = {}
                THEN UNCHANGED <<tasks, clock>>
                ELSE LET schedule == CHOOSE sched \in now : TRUE
                     IN  /\ tasks' = Append(tasks,
                                [NewTask(schedule.schedule_id, "startup") EXCEPT
                                    !.pc = "build", !.schedule = schedule,
                                    !.executed_at = clock + 1])
                         /\ clock' = clock + 1
    /\ UNCHANGED <<storage, api, bd_vars>>

\* the scheduler finds the job due: the executor starts the coroutine unless
\* max_instances of it are running; a date trigger has no further run time
\* and its job leaves the job store
Fire(schedule_id) ==
    /\ scheduler._running
    /\ Registered(scheduler, schedule_id)
    /\ ~scheduler.jobs[schedule_id].paused
    /\ scheduler.instances[schedule_id] < max_instances
    /\ MayRun
    /\ tasks' = Append(tasks, NewTask(schedule_id, "job"))
    /\ scheduler' =
          LET submitted == [scheduler EXCEPT !.instances[schedule_id] = @ + 1]
          IN  IF scheduler.jobs[schedule_id].trigger = "date"
              THEN remove_schedule(submitted, schedule_id)
              ELSE submitted
    /\ UNCHANGED <<storage, clock, api, bd_vars>>

\* the run of a date trigger is skipped (the run time is older than
\* misfire_grace_time, or max_instances are running): the job leaves the store
Misfire(schedule_id) ==
    /\ scheduler._running
    /\ Registered(scheduler, schedule_id)
    /\ ~scheduler.jobs[schedule_id].paused
    /\ scheduler.jobs[schedule_id].trigger = "date"
    /\ scheduler' = remove_schedule(scheduler, schedule_id)
    /\ UNCHANGED <<storage, tasks, clock, api, bd_vars>>

----------------------------------------------------------------------------
(* The handlers of api/schedules.py.  A handler that does not find the
   schedule answers 404; the directory get_schedule made stays.  The
   application serves requests when start has returned, that is when
   load_schedules has executed the schedules that were due. *)

Serving ==
    /\ scheduler._running
    /\ \A t \in 1..Len(tasks) : tasks[t].origin # "startup"

Found(schedule_id) == get_schedule(storage, schedule_id) # NotFound

NotFound404(schedule_id) ==
    /\ storage' = _get_schedule_dir(storage, schedule_id)
    /\ UNCHANGED <<scheduler, tasks, clock, api, bd_vars>>

\* generate_schedule_id: an id no schedule has had ("s1" before "s2")
generate_schedule_id ==
    IF "s1" \notin api.issued THEN "s1" ELSE "s2"

create_schedule(schedule_id, repeat) ==
    /\ Serving
    /\ schedule_id \notin api.issued
    /\ schedule_id = generate_schedule_id
    /\ LET metadata == ScheduleMetadata(schedule_id, repeat)
       IN  /\ storage' = storage_create_schedule(storage, metadata)
           /\ scheduler' = add_schedule(scheduler, metadata)
    /\ api' = [api EXCEPT !.issued = @ \cup {schedule_id}]
    /\ UNCHANGED <<tasks, clock, bd_vars>>

None == "None"
UpdateScheduleRequest == [repeat : Repeats \cup {None}, status : Statuses \cup {None}]

update_schedule(schedule_id, request) ==
    /\ Serving
    /\ IF ~Found(schedule_id) THEN NotFound404(schedule_id)
       ELSE LET loaded == get_schedule(storage, schedule_id)
                schedule == [loaded EXCEPT
                    !.repeat = IF request.repeat # None THEN request.repeat ELSE @,
                    !.status = IF request.status # None THEN request.status ELSE @]
            IN  /\ storage' = storage_update_schedule(storage, schedule_id, schedule)
                /\ scheduler' = service_update_schedule(scheduler, schedule)
                /\ api' = IF schedule.status # "paused"
                          THEN [api EXCEPT !.paused = @ \ {schedule_id},
                                           !.ran = @ \ {schedule_id}]
                          ELSE [api EXCEPT !.ran = @ \ {schedule_id}]
                /\ UNCHANGED <<tasks, clock, bd_vars>>

delete_schedule(schedule_id) ==
    /\ Serving
    /\ IF ~Found(schedule_id) THEN NotFound404(schedule_id)
       ELSE /\ scheduler' = remove_schedule(scheduler, schedule_id)
            /\ storage' = storage_delete_schedule(storage, schedule_id)
            /\ api' = [api EXCEPT !.deleted = @ \cup {schedule_id},
                                  !.paused = @ \ {schedule_id},
                                  !.ran = @ \ {schedule_id}]
            /\ UNCHANGED <<tasks, clock, bd_vars>>

pause_schedule(schedule_id) ==
    /\ Serving
    /\ IF ~Found(schedule_id) THEN NotFound404(schedule_id)
       ELSE LET schedule == [get_schedule(storage, schedule_id) EXCEPT !.status = "paused"]
            IN  /\ storage' = storage_update_schedule(storage, schedule_id, schedule)
                /\ scheduler' = service_pause_schedule(scheduler, schedule_id)
                /\ api' = [api EXCEPT !.paused = @ \cup {schedule_id},
                                      !.ran = @ \ {schedule_id}]
                /\ UNCHANGED <<tasks, clock, bd_vars>>

resume_schedule(schedule_id) ==
    /\ Serving
    /\ IF ~Found(schedule_id) THEN NotFound404(schedule_id)
       ELSE LET schedule == [get_schedule(storage, schedule_id) EXCEPT !.status = "active"]
            IN  /\ storage' = storage_update_schedule(storage, schedule_id, schedule)
                /\ scheduler' = service_resume_schedule(scheduler, schedule_id)
                /\ api' = [api EXCEPT !.paused = @ \ {schedule_id},
                                      !.ran = @ \ {schedule_id}]
                /\ UNCHANGED <<tasks, clock, bd_vars>>

\* asyncio.create_task(execute()): the coroutine starts at a later turn of the loop
trigger_schedule(schedule_id) ==
    /\ Serving
    /\ IF ~Found(schedule_id) THEN NotFound404(schedule_id)
       ELSE /\ MayRun
            /\ tasks' = Append(tasks, NewTask(schedule_id, "trigger"))
            /\ UNCHANGED <<storage, scheduler, clock, api, bd_vars>>

copy_schedule(schedule_id, new_schedule_id) ==
    /\ Serving
    /\ IF ~Found(schedule_id) THEN NotFound404(schedule_id)
       ELSE /\ new_schedule_id \notin api.issued
            /\ new_schedule_id = generate_schedule_id
            /\ LET schedule == get_schedule(storage, schedule_id)
                   new_metadata == [schedule EXCEPT
                       !.schedule_id = new_schedule_id,
                       !.last_execution_status = "None",
                       !.next_execution = "start_time"]
               IN  /\ storage' = storage_create_schedule(storage, new_metadata)
                   /\ scheduler' = IF new_metadata.status = "active"
                                   THEN add_schedule(scheduler, new_metadata)
                                   ELSE scheduler
            /\ api' = [api EXCEPT !.issued = @ \cup {new_schedule_id}]
            /\ UNCHANGED <<tasks, clock, bd_vars>>

Request(schedule_id) ==
    \/ \E repeat \in Repeats : create_schedule(schedule_id, repeat)
    \/ \E request \in UpdateScheduleRequest : update_schedule(schedule_id, request)
    \/ delete_schedule(schedule_id)
    \/ pause_schedule(schedule_id)
    \/ resume_schedule(schedule_id)
    \/ trigger_schedule(schedule_id)
    \/ \E new_schedule_id \in ScheduleIds : copy_schedule(schedule_id, new_schedule_id)

NextSchedule ==
    \/ start
    \/ \E schedule_id \in ScheduleIds :
          Request(schedule_id) \/ Fire(schedule_id) \/ Misfire(schedule_id)
    \/ \E t \in 1..MaxRuns : Begin(t) \/ BuildDone(t) \/ JobDone(t)

SpecSchedule == InitSchedule /\ [][NextSchedule]_vars

----------------------------------------------------------------------------
(* Claims about the schedule service *)

Stored(schedule_id) == get_schedule(storage, schedule_id)
Running(t) == tasks[t].pc \in {"build", "job"}
Idle == tasks = <<>>

\* C16: once pause_schedule has returned, the stored status of the schedule is
\* PAUSED until resume_schedule or update_schedule changes it, also when an
\* execution of the schedule was in progress at the time of the pause.
C16_PausedStaysPaused ==
    \A schedule_id \in api.paused :
        Found(schedule_id) => Stored(schedule_id).status = "paused"

\* the execution that was in progress has ended: the schedule is stored as
\* active and its job is registered and not paused, with no resume or update
\* after the pause
C16_Witness ==
    \E schedule_id \in api.paused :
        /\ Idle
        /\ Found(schedule_id)
        /\ Stored(schedule_id).status = "active"
        /\ Stored(schedule_id).last_execution_status # "None"
        /\ Registered(scheduler, schedule_id)
        /\ ~scheduler.jobs[schedule_id].paused

\* C17: two executions of one schedule are never in progress at the same time,
\* whether they come from the scheduler, a trigger request or the start-up.
C17_OneInstancePerSchedule ==
    \A t1, t2 \in 1..Len(tasks) :
        (t1 # t2 /\ Running(t1) /\ Running(t2))
            => tasks[t1].schedule_id # tasks[t2].schedule_id

\* a run the scheduler started and a run a trigger request started, of the same
\* schedule, both suspended inside execute
C17_Witness ==
    \E t1, t2 \in 1..Len(tasks) :
        /\ tasks[t1].schedule_id = tasks[t2].schedule_id
        /\ tasks[t1].origin = "job" /\ tasks[t1].pc = "job"
        /\ tasks[t2].origin = "trigger" /\ tasks[t2].pc = "build"
        /\ scheduler.instances[tasks[t1].schedule_id] = 1

\* what max_instances does guarantee: the runs the scheduler itself started
C17_OneInstancePerJob ==
    \A t1, t2 \in 1..Len(tasks) :
        (t1 # t2 /\ tasks[t1].origin = "job" /\ tasks[t2].origin = "job")
            => tasks[t1].schedule_id # tasks[t2].schedule_id

\* C19: after delete_schedule has returned, get_schedule finds nothing for the
\* id and list_schedules does not contain it, at every later point.
C19_DeletedStaysDeleted ==
    \A schedule_id \in api.deleted :
        /\ ~Found(schedule_id)
        /\ \A schedule \in list_schedules(storage) : schedule.schedule_id # schedule_id

\* the execution that was in progress at the delete has ended: the schedule is
\* stored again and its job is registered again
C19_Witness ==
    \E schedule_id \in api.deleted :
        /\ Idle
        /\ Found(schedule_id)
        /\ Stored(schedule_id).status = "active"
        /\ Stored(schedule_id).last_execution_status = "failed"
        /\ Registered(scheduler, schedule_id)

\* the schedule, if it is stored as active, has a job that is not paused
ActiveIsScheduled(schedule_id) ==
    (Found(schedule_id) /\ Stored(schedule_id).status = "active")
        => (Registered(scheduler, schedule_id) /\ ~scheduler.jobs[schedule_id].paused)

\* an API operation on the schedule completes (for create and copy: the
\* operation that made it)
Operation(schedule_id) ==
    \/ \E repeat \in Repeats : create_schedule(schedule_id, repeat)
    \/ \E request \in UpdateScheduleRequest : update_schedule(schedule_id, request)
    \/ pause_schedule(schedule_id)
    \/ resume_schedule(schedule_id)
    \/ \E source \in ScheduleIds : copy_schedule(source, schedule_id)

\* C20: when create, update, pause, resume or copy has completed, a schedule
\* stored as ACTIVE has a registered job that is not paused; resume_schedule
\* leaves the schedule registered after any sequence of pause and update.
C20_ActiveIsRegistered ==
    [][\A schedule_id \in ScheduleIds :
          Operation(schedule_id) => ActiveIsScheduled(schedule_id)']_vars

\* requests only, no execution yet: a daily schedule (its job never leaves the
\* job store by itself) is stored as active and the scheduler has no job for it
C20_Witness ==
    \E schedule_id \in ScheduleIds :
        /\ scheduler._running
        /\ clock = 0 /\ Idle
        /\ Found(schedule_id)
        /\ Stored(schedule_id).status = "active"
        /\ Stored(schedule_id).repeat = "daily"
        /\ ~Registered(scheduler, schedule_id)

Scheduling(st, sch, schedule_id) ==
    [job |-> sch.jobs[schedule_id],
     next_execution |-> IF get_schedule(st, schedule_id) = NotFound THEN "None"
                        ELSE get_schedule(st, schedule_id).next_execution]

\* a step of the run that trigger_schedule started for the schedule
TriggeredStep(schedule_id) ==
    \E t \in 1..Len(tasks) :
        /\ tasks[t].origin = "trigger"
        /\ tasks[t].schedule_id = schedule_id
        /\ Begin(t) \/ BuildDone(t) \/ JobDone(t)

\* C22: a manual trigger executes the schedule once and does not affect its
\* scheduling: the run it starts leaves the job registered in the scheduler,
\* its trigger and the stored next_execution as they were.
C22_TriggerKeepsScheduling ==
    [][\A schedule_id \in ScheduleIds :
          TriggeredStep(schedule_id) =>
              Scheduling(storage', scheduler', schedule_id)
                  = Scheduling(storage, scheduler, schedule_id)]_vars

\* the only execution there has been is a triggered run of a daily schedule,
\* and it has completed: the stored next_execution is no longer the start_time
\* the schedule was created with but the time calculated from the triggered run
C22_Witness ==
    \E schedule_id \in api.triggered :
        /\ clock = 1 /\ Idle
        /\ Len(storage[schedule_id].executions) = 1
        /\ Stored(schedule_id).repeat = "daily"
        /\ Stored(schedule_id).next_execution = "calculated"
        /\ Registered(scheduler, schedule_id)

\* the steps of task t in which the build fails or a step of execute raises
StepFailed(t) ==
    \/ tasks[t].pc = "build" /\ Complete(t, storage, "error")
    \/ tasks[t].pc \in {"build", "job"} /\ \E e \in Exceptions : Raise(t, storage, e)

\* the steps of task t in which every step of execute completes without error
StepsCompleted(t) ==
    tasks[t].pc = "job" /\ Complete(t, storage, "None")

StatusAfter(schedule_id, status) ==
    LET schedule == get_schedule(storage', schedule_id)
    IN  schedule # NotFound /\ schedule.last_execution_status = status

\* C23: execute sets last_execution_status to "failed" if the build failed or
\* any step raised an exception of any kind, and to "success" only if every
\* step completed without error: a step in which the build fails or a step
\* raises leaves the status "failed", a step in which all complete leaves it
\* "success"
C23_FailedWhenStepFailed ==
    [][\A t \in 1..Len(tasks) :
          /\ StepFailed(t) => StatusAfter(tasks[t].schedule_id, "failed")
          /\ StepsCompleted(t) => StatusAfter(tasks[t].schedule_id, "success")]_vars

\* an execution in which a step failed has completed and has set the status
C23_Witness ==
    \E schedule_id \in ScheduleIds :
        /\ clock = 1 /\ Idle
        /\ Found(schedule_id)
        /\ Len(storage[schedule_id].executions) = 1
        /\ Stored(schedule_id).last_execution_status = "failed"

----------------------------------------------------------------------------
(* The execution history of one schedule: add_execution is called once per
   execution, with the time the execution began. *)

MaxExecutions == 102

InitHistory ==
    /\ storage = storage_create_schedule([id \in ScheduleIds |-> NoDir],
                                         ScheduleMetadata("s1", "daily"))
    /\ scheduler = [jobs |-> [id \in ScheduleIds |-> NoJob],
                    instances |-> [id \in ScheduleIds |-> 0],
                    _running |-> FALSE]
    /\ tasks = <<>>
    /\ clock = 0
    /\ api = [NoApi EXCEPT !.issued = {"s1"}]
    /\ args = <<>>
    /\ ret = NoCall
    /\ data = NoData
    /\ report = NoReport
    /\ frames = NoFrames

RecordExecution ==
    /\ clock < MaxExecutions
    /\ clock' = clock + 1
    /\ storage' = add_execution(storage, "s1", [executed_at |-> clock + 1])
    /\ UNCHANGED <<scheduler, tasks, api, bd_vars>>

NextHistory == RecordExecution

SpecHistory == InitHistory /\ [][NextHistory]_vars

ExecutedAt(schedule_id) ==
    LET executions == storage[schedule_id].executions
    IN  { executions[i].executed_at : i \in 1..Len(executions) }

\* C18: the stored history holds the record just added and, once more than 100
\* records have been added, exactly the 100 with the latest executed_at.
C18_KeepsLatestHundred ==
    clock > 0 =>
        /\ clock \in ExecutedAt("s1")
        /\ clock > KeepLast => ExecutedAt("s1") = (clock - KeepLast + 1)..clock

\* what is stored after record 102: the first 99 records and the last one
C18_Witness ==
    /\ clock = KeepLast + 2
    /\ ExecutedAt("s1") = (1..(KeepLast - 1)) \cup {clock}

====
